---- MODULE Spec2Model ----
(***************************************************************************)
(* ParseBindgen (engine/src/conversion/parse/parse_bindgen.rs): the pass   *)
(* that walks the bindgen output, one `mod` per C++ namespace, and builds  *)
(* the list of unanalyzed APIs.                                            *)
(***************************************************************************)
EXTENDS Integers, Sequences, FiniteSets, TLC

VARIABLES config, leaves, input, budget, pc, apis, stack, result, diagnostics, events,
          tagged

vars == <<config, leaves, input, budget, pc, apis, stack, result, diagnostics, events,
          tagged>>

(***************************************************************************)
(* Bounds of the model: the number of syn::Item nodes (mods included) of   *)
(* the Vec<Item> handed to parse_items; the number of attributes of the    *)
(* declaration whose annotations are decoded; the number of calls of       *)
(* remove_bindgen_attrs on it.                                             *)
(***************************************************************************)
MaxNodes == 4

MaxAttrs == 2

MaxCalls == 2

(***************************************************************************)
(* Option<T> is a sequence of length at most one.                          *)
(***************************************************************************)
None == <<>>

Some(x) == <<x>>

IsSome(o) == Len(o) > 0

Unwrap(o) == o[1]

(***************************************************************************)
(* Tokens, attributes and items (syn).                                     *)
(***************************************************************************)
Tok(k, s, n) == [k |-> k, s |-> s, n |-> n]

Attr(path, args) == [path |-> path, args |-> args]

NoTree == [segs |-> <<>>, t |-> "none", ident |-> "", rename |-> ""]

\* One syn::Item. `fields` are the field identifiers of a struct, `fns` the
\* function identifiers of an extern block or impl block, `tree` the UseTree
\* of a `use` (its Path segments, then its last node), `content` whether a
\* `mod` has a body (the items of a body are read as the walk reaches them).
Leaf(kind, ident, fields, attrs, tree, fns) ==
    [kind |-> kind, ident |-> ident, fields |-> fields, attrs |-> attrs,
     tree |-> tree, fns |-> fns, content |-> FALSE]

ItemStruct(ident, fields, attrs) == Leaf("Struct", ident, fields, attrs, NoTree, <<>>)

ItemEnum(ident, attrs) == Leaf("Enum", ident, <<>>, attrs, NoTree, <<>>)

ItemConst(ident, attrs) == Leaf("Const", ident, <<>>, attrs, NoTree, <<>>)

ItemType(ident, attrs) == Leaf("Type", ident, <<>>, attrs, NoTree, <<>>)

ItemForeignMod(fns) == Leaf("ForeignMod", "", <<>>, <<>>, NoTree, fns)

ItemImpl(ident, fns) == Leaf("Impl", ident, <<>>, <<>>, NoTree, fns)

\* Any other Item variant (Item::Fn, Item::Macro, Item::Static, ...).
ItemOther == Leaf("Other", "", <<>>, <<>>, NoTree, <<>>)

ItemUse(segs, t, ident, rename) ==
    Leaf("Use", "", <<>>, <<>>,
         [segs |-> segs, t |-> t, ident |-> ident, rename |-> rename], <<>>)

ItemMod(ident, content) ==
    [kind |-> "Mod", ident |-> ident, fields |-> <<>>, attrs |-> <<>>,
     tree |-> NoTree, fns |-> <<>>, content |-> content]

(***************************************************************************)
(* Namespace and QualifiedName (crate::types).                             *)
(***************************************************************************)
NamespaceNew == <<>>

NamespacePush(ns, seg) == Append(ns, seg)

NamespaceIsEmpty(ns) == Len(ns) = 0

QualifiedNameNew(ns, id) == [ns |-> ns, id |-> id]

\* QualifiedName::from_type_path: a function of the path alone; a leading
\* `root` segment is dropped, the last segment is the identifier and the
\* segments before it are the namespace.
FromTypePath(path) ==
    LET p == IF Len(path) > 1 /\ path[1] = "root" THEN Tail(path) ELSE path
    IN  [ns |-> SubSeq(p, 1, Len(p) - 1), id |-> p[Len(p)]]

\* QualifiedName::to_cpp_name: the segments joined by "::".
ToCppName(qn) == Append(qn.ns, qn.id)

\* QualifiedName::new_from_cpp_name
NewFromCppName(cpp) == [ns |-> SubSeq(cpp, 1, Len(cpp) - 1), id |-> cpp[Len(cpp)]]

(***************************************************************************)
(* IncludeCppConfig (autocxx_parser) and the collaborators of the pass.    *)
(***************************************************************************)
\* validate_ident_ok_for_cxx: the identifiers of the model it rejects.
InvalidIdents == {"bad"}

ValidateIdentOkForCxx(id) == id \notin InvalidIdents

\* The identifiers of the model that end with "__bindgen_vtable".
VtableIdents == {"V__bindgen_vtable"}

EndsWithBindgenVtable(id) == id \in VtableIdents

ExcludeUtilities(cfg) == cfg.exclude_utilities

IsRustType(cfg, id) == \E i \in 1..Len(cfg.rust_types) : cfg.rust_types[i] = id

IsOnBlocklist(cfg, cpp) == cpp \in cfg.blocklist

MustGenerateList(cfg) == cfg.must_generate

(***************************************************************************)
(* Api entries.                                                            *)
(***************************************************************************)
ApiNameNewWithCppName(ns, id, cpp_name) ==
    [name |-> QualifiedNameNew(ns, id), cpp_name |-> cpp_name]

ApiNameNewInRootNamespace(id) == ApiNameNewWithCppName(NamespaceNew, id, None)

Entry(kind, an, vis, layout, old_tyname, superclass, src, err) ==
    [kind |-> kind, name |-> an.name, cpp_name |-> an.cpp_name, vis |-> vis,
     layout |-> layout, old_tyname |-> old_tyname, superclass |-> superclass,
     src |-> src, err |-> err]

NoErr == [kind |-> "", qn |-> None, seg |-> None, dir |-> <<>>]

\* ConvertError: the variant with its payload (a QualifiedName, an
\* Option<Ident> or the name of a directive).
ConvertErr(kind, qn, seg) == [kind |-> kind, qn |-> qn, seg |-> seg, dir |-> <<>>]

DidNotGenerateAnything(directive) ==
    [kind |-> "DidNotGenerateAnything", qn |-> None, seg |-> None, dir |-> directive]

\* api.name()
ApiNameOf(api) == api.name

(***************************************************************************)
(* Attribute decoding, parse_bindgen.rs lines 48-114.                      *)
(***************************************************************************)
IsIdent(a, name) == a.path = <<name>>

\* Attribute::parse_args::<LitStr>
ParseArgsLitStr(a) ==
    IF Len(a.args) = 1 /\ a.args[1].k = "str" THEN Some(a.args[1].s) ELSE None

\* Attribute::parse_args::<Layout>: size, align, packed
ParseArgsLayout(a) ==
    IF /\ Len(a.args) = 3
       /\ a.args[1].k = "int" /\ a.args[2].k = "int" /\ a.args[3].k = "bool"
    THEN Some([size |-> a.args[1].n, align |-> a.args[2].n,
               packed |-> a.args[3].s = "true"])
    ELSE None

RECURSIVE get_bindgen_original_name_annotation(_)
get_bindgen_original_name_annotation(attrs) ==
    IF attrs = <<>> THEN None
    ELSE LET a == Head(attrs)
             r == IF IsIdent(a, "bindgen_original_name") THEN ParseArgsLitStr(a) ELSE None
         IN  IF IsSome(r) THEN r
             ELSE get_bindgen_original_name_annotation(Tail(attrs))

has_attr(attrs, attr_name) == \E i \in 1..Len(attrs) : IsIdent(attrs[i], attr_name)

get_cpp_visibility(attrs) ==
    IF has_attr(attrs, "bindgen_visibility_private") THEN "Private"
    ELSE IF has_attr(attrs, "bindgen_visibility_protected") THEN "Protected"
    ELSE "Public"

get_virtualness(attrs) ==
    IF has_attr(attrs, "bindgen_pure_virtual") THEN "PureVirtual"
    ELSE IF has_attr(attrs, "bindgen_virtual") THEN "Virtual"
    ELSE "None"

\* parse_layout: [panic |-> the unwrap failed, v |-> Option<Layout>]; the
\* first bindgen_layout attribute decides.
RECURSIVE parse_layout(_)
parse_layout(attrs) ==
    IF attrs = <<>> THEN [panic |-> FALSE, v |-> None]
    ELSE IF IsIdent(Head(attrs), "bindgen_layout")
         THEN LET r == ParseArgsLayout(Head(attrs))
              IN  [panic |-> ~IsSome(r), v |-> r]
         ELSE parse_layout(Tail(attrs))

\* api_name as it would be if it dropped the namespace.
api_name_in_root(ns, id, attrs) ==
    ApiNameNewWithCppName(NamespaceNew, id, get_bindgen_original_name_annotation(attrs))

api_name(ns, id, attrs) ==
    ApiNameNewWithCppName(ns, id, get_bindgen_original_name_annotation(attrs))

\* api_name_qualified as it would be if the error lost its context.
api_name_qualified_without_context(ns, id, attrs) ==
    IF ValidateIdentOkForCxx(id)
    THEN [ok |-> TRUE, name |-> api_name(ns, id, attrs), err |-> NoErr, ctx |-> None]
    ELSE [ok |-> FALSE, name |-> api_name(ns, id, attrs),
          err |-> ConvertErr("InvalidIdent", None, None), ctx |-> None]

\* api_name_qualified: [ok, name, err, ctx]
api_name_qualified(ns, id, attrs) ==
    IF ValidateIdentOkForCxx(id)
    THEN [ok |-> TRUE, name |-> api_name(ns, id, attrs), err |-> NoErr, ctx |-> None]
    ELSE [ok |-> FALSE, name |-> api_name(ns, id, attrs),
          err |-> ConvertErr("InvalidIdent", None, None), ctx |-> Some(id)]

(***************************************************************************)
(* ParseForeignMod (parse_foreign_mod.rs), through the three calls the     *)
(* pass makes: the accumulator of one namespace.                           *)
(***************************************************************************)
ParseForeignModNew(ns) == [ns |-> ns, funcs |-> <<>>, impls |-> <<>>]

convert_foreign_mod_items(conv, fns, src) ==
    [conv EXCEPT !.funcs = @ \o [i \in 1..Len(fns) |-> [ident |-> fns[i], src |-> src]]]

convert_impl_items(conv, imp) ==
    [conv EXCEPT !.impls = @ \o [i \in 1..Len(imp.fns) |-> [ty |-> imp.ident, ident |-> imp.fns[i]]]]

\* finished: the function entries of the namespace, in the order received.
finished(conv) ==
    [i \in 1..Len(conv.funcs) |->
        Entry("Function", ApiNameNewWithCppName(conv.ns, conv.funcs[i].ident, None),
              "", None, None, None, conv.funcs[i].src, NoErr)]

(***************************************************************************)
(* parse_item, one operator per arm of its match.  The value is what the   *)
(* arm does: tag "Ok" | "Err" | "Panic", the entries it pushes on          *)
(* self.apis, the accumulator afterwards, and the error with its context.  *)
(***************************************************************************)
Outcome(tag, push, conv, err, ctx) ==
    [tag |-> tag, push |-> push, conv |-> conv, err |-> err, ctx |-> ctx]

OkOutcome(push, conv) == Outcome("Ok", push, conv, NoErr, None)

ErrOutcome(conv, err, ctx) == Outcome("Err", <<>>, conv, err, ctx)

PanicOutcome(conv) == Outcome("Panic", <<>>, conv, NoErr, None)

\* spot_forward_declaration
spot_forward_declaration(fields) == \E i \in 1..Len(fields) : fields[i] = "_unused"

\* The ForeignMod arm as it would be if it pushed the function entries at
\* once instead of handing them to the accumulator.
ParseForeignModArmPushingAtOnce(cfg, item, conv, ns, src) ==
    OkOutcome(finished(convert_foreign_mod_items(ParseForeignModNew(ns), item.fns, src)), conv)

\* Item::ForeignMod
ParseForeignModArm(cfg, item, conv, ns, src) ==
    OkOutcome(<<>>, convert_foreign_mod_items(conv, item.fns, src))

\* The choice of the Struct arm as it would be with the forward declaration
\* tested first.
StructApiKindForwardFirst(cfg, s, ns) ==
    IF spot_forward_declaration(s.fields) THEN "ForwardDeclaration"
    ELSE IF NamespaceIsEmpty(ns) /\ IsRustType(cfg, s.ident) THEN "None"
    ELSE "Struct"

\* Item::Struct: which Api, if any, the declaration becomes.
StructApiKind(cfg, s, ns) ==
    IF NamespaceIsEmpty(ns) /\ IsRustType(cfg, s.ident) THEN "None"
    ELSE IF spot_forward_declaration(s.fields) THEN "ForwardDeclaration"
    ELSE "Struct"

\* The Struct arm as it would be without its blocklist test.
StructNeverOnBlocklist(cfg, api) == FALSE

\* The blocklist test of the Struct arm.
StructOnBlocklist(cfg, api) == IsOnBlocklist(cfg, ToCppName(ApiNameOf(api)))

\* Item::Struct
ParseStructArm(cfg, s, conv, ns, src) ==
    IF EndsWithBindgenVtable(s.ident) THEN OkOutcome(<<>>, conv)
    ELSE LET name == api_name_qualified(ns, s.ident, s.attrs)
             kind == StructApiKind(cfg, s, ns)
             layout == parse_layout(s.attrs)
             api == IF kind = "ForwardDeclaration"
                    THEN Entry("ForwardDeclaration", name.name, "", None, None, None, src, NoErr)
                    ELSE Entry("Struct", name.name, get_cpp_visibility(s.attrs),
                               layout.v, None, None, src, NoErr)
         IN  IF ~name.ok THEN ErrOutcome(conv, name.err, name.ctx)
             ELSE IF kind = "None" THEN OkOutcome(<<>>, conv)
             ELSE IF kind = "Struct" /\ layout.panic THEN PanicOutcome(conv)
             ELSE IF StructOnBlocklist(cfg, api) THEN OkOutcome(<<>>, conv)
             ELSE OkOutcome(<<api>>, conv)

\* The blocklist test of the Enum arm.
EnumOnBlocklist(cfg, api) == IsOnBlocklist(cfg, ToCppName(ApiNameOf(api)))

\* Item::Enum
ParseEnumArm(cfg, e, conv, ns, src) ==
    LET name == api_name_qualified(ns, e.ident, e.attrs)
        api == Entry("Enum", name.name, "", None, None, None, src, NoErr)
    IN  IF ~name.ok THEN ErrOutcome(conv, name.err, name.ctx)
        ELSE IF EnumOnBlocklist(cfg, api) THEN OkOutcome(<<>>, conv)
        ELSE OkOutcome(<<api>>, conv)

\* Item::Impl
ParseImplArm(cfg, imp, conv, ns, src) == OkOutcome(<<>>, convert_impl_items(conv, imp))

\* The removal of the prefix as it would be without the assertions: the
\* first two segments, if any, are dropped whatever they are.
StripSelfSuperUnchecked(segs) ==
    [panic |-> FALSE, segs |-> IF Len(segs) < 2 THEN <<>> ELSE SubSeq(segs, 3, Len(segs))]

\* UseTree::Rename: the two segs.remove(0) with their assertions; the value
\* is the remaining segments, or a panic.
StripSelfSuper(segs) ==
    IF Len(segs) = 0 \/ segs[1] # "self" THEN [panic |-> TRUE, segs |-> <<>>]
    ELSE IF Len(segs) = 1 \/ segs[2] # "super" THEN [panic |-> TRUE, segs |-> <<>>]
    ELSE [panic |-> FALSE, segs |-> SubSeq(segs, 3, Len(segs))]

\* The old qualified name as it would be if the path were taken relative to
\* the current namespace.
OldTynameInNamespace(ns, segs, old_id) == FromTypePath(ns \o Append(segs, old_id))

\* The old qualified name of a renaming re-export.
OldTyname(ns, segs, old_id) == FromTypePath(Append(segs, old_id))

\* The self-reference test as it would be if it never fired.
NeverRecursiveTypedef(new_tyname, old_tyname) == FALSE

\* The self-reference test of a renaming re-export.
IsRecursiveTypedef(new_tyname, old_tyname) == new_tyname = old_tyname

\* Item::Use: the loop over the UseTree.
ParseUseArm(cfg, use_item, conv, ns, src) ==
    LET tree == use_item.tree
        segs == tree.segs
    IN  IF tree.t = "Name" /\ tree.ident = "root" THEN OkOutcome(<<>>, conv)
        ELSE IF tree.t = "Rename"
        THEN LET old_id == tree.ident
                 new_id == tree.rename
                 new_tyname == QualifiedNameNew(ns, new_id)
                 stripped == StripSelfSuper(segs)
                 old_tyname == OldTyname(ns, stripped.segs, old_id)
             IN  IF stripped.panic THEN PanicOutcome(conv)
                 ELSE IF IsRecursiveTypedef(new_tyname, old_tyname)
                 THEN ErrOutcome(conv,
                          ConvertErr("InfinitelyRecursiveTypedef", Some(new_tyname), None),
                          Some(new_id))
                 ELSE OkOutcome(<<Entry("Typedef", api_name(ns, new_id, use_item.attrs),
                                        "", None, Some(old_tyname), None, src, NoErr)>>,
                                conv)
        ELSE ErrOutcome(conv,
                 ConvertErr("UnexpectedUseStatement", None,
                            IF Len(segs) = 0 THEN None ELSE Some(segs[Len(segs)])),
                 None)

\* Item::Const
ParseConstArm(cfg, const_item, conv, ns, src) ==
    OkOutcome(<<Entry("Const", api_name(ns, const_item.ident, const_item.attrs),
                      "", None, None, None, src, NoErr)>>, conv)

\* Item::Type
ParseTypeArm(cfg, ity, conv, ns, src) ==
    OkOutcome(<<Entry("Typedef", api_name(ns, ity.ident, ity.attrs),
                      "", None, None, None, src, NoErr)>>, conv)

\* Any other item
ParseOtherArm(cfg, item, conv, ns, src) ==
    ErrOutcome(conv, ConvertErr("UnexpectedItemInMod", None, None), None)

(***************************************************************************)
(* The inputs of the model.                                                *)
(***************************************************************************)
LayoutOk == Attr(<<"bindgen_layout">>, <<Tok("int", "8", 8), Tok("int", "4", 4), Tok("bool", "false", 0)>>)

LayoutBad == Attr(<<"bindgen_layout">>, <<Tok("ident", "oops", 0)>>)

OriginalNameBad == Attr(<<"bindgen_original_name">>, <<Tok("ident", "Orig", 0)>>)

OriginalNameOk == Attr(<<"bindgen_original_name">>, <<Tok("str", "Orig", 0)>>)

Flag(name) == Attr(<<name>>, <<>>)

\* The declarations of the model, each under the text it stands for.
Decl ==
    ("struct S { x }" :> ItemStruct("S", <<"x">>, <<>>))
    @@ ("struct S { _unused }" :> ItemStruct("S", <<"_unused">>, <<>>))
    @@ ("struct W { x, _unused }" :> ItemStruct("W", <<"x", "_unused">>, <<>>))
    @@ ("struct R { x }" :> ItemStruct("R", <<"x">>, <<>>))
    @@ ("struct R { _unused }" :> ItemStruct("R", <<"_unused">>, <<>>))
    @@ ("#[protected, private, original_name(Orig), original_name(\"Orig\"), layout(8, 4, false)] struct P { x }"
        :> ItemStruct("P", <<"x">>, <<Flag("bindgen_visibility_protected"),
                                     Flag("bindgen_visibility_private"),
                                     OriginalNameBad, OriginalNameOk, LayoutOk>>))
    @@ ("#[protected, layout(oops)] struct Q { x }"
        :> ItemStruct("Q", <<"x">>, <<Flag("bindgen_visibility_protected"), LayoutBad>>))
    @@ ("struct bad { x }" :> ItemStruct("bad", <<"x">>, <<>>))
    @@ ("struct V__bindgen_vtable { x }" :> ItemStruct("V__bindgen_vtable", <<"x">>, <<>>))
    @@ ("use self::super::root;" :> ItemUse(<<"self", "super">>, "Name", "root", ""))
    @@ ("use self::super::foo as bar;" :> ItemUse(<<"self", "super">>, "Rename", "foo", "bar"))
    @@ ("use self::super::foo as foo;" :> ItemUse(<<"self", "super">>, "Rename", "foo", "foo"))
    @@ ("use self::super::a::foo as foo;"
        :> ItemUse(<<"self", "super", "a">>, "Rename", "foo", "foo"))
    @@ ("use self::super::root::a::foo as bar;"
        :> ItemUse(<<"self", "super", "root", "a">>, "Rename", "foo", "bar"))
    @@ ("use foo as bar;" :> ItemUse(<<>>, "Rename", "foo", "bar"))
    @@ ("use self::a::foo as bar;" :> ItemUse(<<"self", "a">>, "Rename", "foo", "bar"))
    @@ ("use self::super::*;" :> ItemUse(<<"self", "super">>, "Glob", "", ""))
    @@ ("use foo;" :> ItemUse(<<>>, "Name", "foo", ""))
    @@ ("use self::super::{a, b};" :> ItemUse(<<"self", "super">>, "Group", "", ""))
    @@ ("enum E" :> ItemEnum("E", <<>>))
    @@ ("enum bad" :> ItemEnum("bad", <<>>))
    @@ ("const S" :> ItemConst("S", <<>>))
    @@ ("#[original_name(\"Orig\")] type T" :> ItemType("T", <<OriginalNameOk>>))
    @@ ("extern { fn f }" :> ItemForeignMod(<<"f">>))
    @@ ("impl S { fn f }" :> ItemImpl("S", <<"f">>))
    @@ ("fn g" :> ItemOther)
    @@ ("mod a;" :> ItemMod("a", FALSE))
    @@ ("mod a { .. }" :> ItemMod("a", TRUE))
    @@ ("mod root;" :> ItemMod("root", FALSE))
    @@ ("mod root { .. }" :> ItemMod("root", TRUE))

\* The leaves one input draws from.  aggregates: plain, forward-declared,
\* with an invalid identifier, a vtable.  tagged: aggregates named like a
\* configured Rust type, annotated, with a malformed layout.  renames:
\* renaming re-exports with the self::super prefix and one well-formed
\* sibling.  reexports: `use self::super::root;`, renames without the
\* prefix, a glob, a bare name, a group, and one well-formed sibling.  mixed:
\* declarations of every kind.
Vocabulary ==
    [aggregates |->
        {"struct S { x }", "struct S { _unused }", "struct W { x, _unused }",
         "struct bad { x }", "struct V__bindgen_vtable { x }"},
     tagged |->
        {"struct S { x }", "struct R { x }", "struct R { _unused }",
         "#[protected, private, original_name(Orig), original_name(\"Orig\"), layout(8, 4, false)] struct P { x }",
         "#[protected, layout(oops)] struct Q { x }"},
     renames |->
        {"use self::super::foo as bar;", "use self::super::foo as foo;",
         "use self::super::a::foo as foo;", "use self::super::root::a::foo as bar;",
         "enum E"},
     reexports |->
        {"use self::super::root;", "use foo as bar;", "use self::a::foo as bar;",
         "use self::super::*;", "use foo;", "use self::super::{a, b};", "enum E"},
     mixed |->
        {"struct S { x }", "struct bad { x }", "enum E", "enum bad", "const S",
         "#[original_name(\"Orig\")] type T", "extern { fn f }", "impl S { fn f }",
         "fn g"}]

\* The items a top-level Vec<Item> is made of: something that is no mod, the
\* `root` mod without and with a body, a mod of another name.
TopItems == {"fn g", "mod root;", "mod root { .. }", "mod a { .. }"}

RECURSIVE SeqsUpTo(_, _)
SeqsUpTo(S, n) ==
    IF n = 0 THEN {<<>>}
    ELSE LET shorter == SeqsUpTo(S, n - 1)
         IN  shorter \cup {Append(q, x) : q \in shorter, x \in S}

TopLevels == SeqsUpTo(TopItems, MaxNodes)

\* The nested mods of the model.
NestedMods == {"mod a;", "mod a { .. }"}

Cfg(xu, sub, funs, types, bl, must) ==
    [exclude_utilities |-> xu, subclasses |-> sub, extern_rust_funs |-> funs,
     rust_types |-> types, blocklist |-> bl, must_generate |-> must]

Configs ==
    { Cfg(FALSE, <<[subclass |-> "Sub", superclass |-> <<"a", "S">>]>>, <<"rf">>, <<"R">>,
          {}, <<>>),
      Cfg(TRUE, <<>>, <<>>, <<>>,
          {<<"S">>, <<"T">>, <<"E">>, <<"a", "S">>}, << <<"S">> >>),
      Cfg(FALSE, <<>>, <<>>, <<"R">>,
          {<<"a", "E">>}, << <<"R">>, <<"f">> >>) }

(***************************************************************************)
(* AutocxxBindgenAnnotations (engine/src/conversion/parse/                 *)
(* bindgen_annotations.rs).  An attribute here is a path, the tokens of    *)
(* its arguments as parse_bindgen.rs reads them (args), and the same       *)
(* tokens as AutocxxBindgenAttribute::parse reads them: a leading          *)
(* identifier (name), a parenthesized group after it (body), and whether   *)
(* anything else follows (rest).                                           *)
(***************************************************************************)
Attribute(path, args, name, body, rest) ==
    [path |-> path, args |-> args, name |-> name, body |-> body, rest |-> rest]

\* #[bindgen_annotation(name)], #[bindgen_annotation(name(body))]
Annotation(name) == Attribute(<<"bindgen_annotation">>, <<>>, Some(name), None, FALSE)

AnnotationWith(name, body) ==
    Attribute(<<"bindgen_annotation">>, <<>>, Some(name), Some(body), FALSE)

\* a.path.segments.last().unwrap().ident == "bindgen_annotation"
IsBindgenAnnotation(a) == a.path[Len(a.path)] = "bindgen_annotation"

\* impl Parse for AutocxxBindgenAttribute, run by Attribute::parse_args, which
\* also fails when tokens are left over.
AutocxxBindgenAttributeParse(a) ==
    IF ~IsSome(a.name) THEN None
    ELSE IF a.rest THEN None
    ELSE Some([annotation_name |-> Unwrap(a.name), body |-> a.body])

\* AutocxxBindgenAnnotations::new
RECURSIVE AnnotationsNew(_)
AnnotationsNew(attrs) ==
    IF attrs = <<>> THEN <<>>
    ELSE LET r == IF IsBindgenAnnotation(Head(attrs))
                  THEN AutocxxBindgenAttributeParse(Head(attrs))
                  ELSE None
         IN  r \o AnnotationsNew(Tail(attrs))

\* AutocxxBindgenAttribute::is_ident
is_ident(a, name) == a.annotation_name = name

\* T::parse on the tokens of a body, for T among LitStr, Layout and Ident.
ParseTokens(T, toks) ==
    CASE T = "LitStr" -> ParseArgsLitStr([args |-> toks])
      [] T = "Layout" -> ParseArgsLayout([args |-> toks])
      [] T = "Ident" -> IF Len(toks) = 1 /\ toks[1].k = "ident" THEN Some(toks[1].s) ELSE None

\* AutocxxBindgenAttribute::parse_args: self.body.as_ref().unwrap() panics
\* without a body; r is the Result as an Option.
AttributeParseArgs(a, T) ==
    IF IsSome(a.body) THEN [panic |-> FALSE, r |-> ParseTokens(T, Unwrap(a.body))]
    ELSE [panic |-> TRUE, r |-> None]

\* AutocxxBindgenAnnotations::has_attr
AnnotationsHasAttr(anns, attr_name) == \E i \in 1..Len(anns) : is_ident(anns[i], attr_name)

\* AutocxxBindgenAnnotations::get_cpp_visibility
AnnotationsGetCppVisibility(anns) ==
    IF AnnotationsHasAttr(anns, "visibility_private") THEN "Private"
    ELSE IF AnnotationsHasAttr(anns, "visibility_protected") THEN "Protected"
    ELSE "Public"

\* AutocxxBindgenAnnotations::get_virtualness
AnnotationsGetVirtualness(anns) ==
    IF AnnotationsHasAttr(anns, "pure_virtual") THEN "PureVirtual"
    ELSE IF AnnotationsHasAttr(anns, "bindgen_virtual") THEN "Virtual"
    ELSE "None"

\* parse_if_present as it would be if a payload that does not parse were
\* taken as an absent annotation.
RECURSIVE parse_if_present_or_none(_, _, _)
parse_if_present_or_none(anns, annotation, T) ==
    IF anns = <<>> THEN [panic |-> FALSE, v |-> None]
    ELSE IF is_ident(Head(anns), annotation)
         THEN [panic |-> FALSE, v |-> AttributeParseArgs(Head(anns), T).r]
         ELSE parse_if_present_or_none(Tail(anns), annotation, T)

\* parse_if_present: the first annotation of that name decides, and the
\* unwrap of its parse_args panics on a payload that does not parse.
RECURSIVE parse_if_present(_, _, _)
parse_if_present(anns, annotation, T) ==
    IF anns = <<>> THEN [panic |-> FALSE, v |-> None]
    ELSE IF is_ident(Head(anns), annotation)
         THEN LET p == AttributeParseArgs(Head(anns), T)
              IN  IF p.panic \/ ~IsSome(p.r) THEN [panic |-> TRUE, v |-> None]
                  ELSE [panic |-> FALSE, v |-> p.r]
         ELSE parse_if_present(Tail(anns), annotation, T)

string_if_present(anns, annotation) == parse_if_present(anns, annotation, "LitStr")

get_layout(anns) == parse_if_present(anns, "layout", "Layout")

get_original_name(anns) == string_if_present(anns, "original_name")

get_bindgen_special_member_annotation(anns) == string_if_present(anns, "special_member")

is_move_constructor(anns) ==
    LET r == get_bindgen_special_member_annotation(anns)
    IN  [panic |-> r.panic, v |-> IsSome(r.v) /\ Unwrap(r.v) = "move_ctor"]

\* get_reference_parameters_and_return, from the annotations left to scan
\* and what was gathered so far.
RECURSIVE ReferenceScan(_, _, _)
ReferenceScan(anns, ref_params, ref_return) ==
    IF anns = <<>>
    THEN [panic |-> FALSE, ref_params |-> ref_params, ref_return |-> ref_return]
    ELSE LET a == Head(anns)
         IN  IF is_ident(a, "ret_type_reference")
             THEN ReferenceScan(Tail(anns), ref_params, TRUE)
             ELSE IF is_ident(a, "arg_type_reference")
             THEN LET p == AttributeParseArgs(a, "Ident")
                  IN  IF p.panic
                      THEN [panic |-> TRUE, ref_params |-> {}, ref_return |-> FALSE]
                      ELSE ReferenceScan(Tail(anns),
                               IF IsSome(p.r) THEN ref_params \cup {Unwrap(p.r)}
                               ELSE ref_params,
                               ref_return)
             ELSE ReferenceScan(Tail(anns), ref_params, ref_return)

get_reference_parameters_and_return(anns) == ReferenceScan(anns, {}, FALSE)

\* remove_bindgen_attrs as it would be if it stripped the annotations
\* without looking for unused_template_param.
remove_bindgen_attrs_unvalidated(attrs, id) ==
    [ok |-> TRUE, err |-> "", ctx |-> None,
     attrs |-> SelectSeq(attrs, LAMBDA a : ~IsBindgenAnnotation(a))]

\* AutocxxBindgenAnnotations::remove_bindgen_attrs: the Result, and attrs
\* after the call.
remove_bindgen_attrs(attrs, id) ==
    IF AnnotationsHasAttr(AnnotationsNew(attrs), "unused_template_param")
    THEN [ok |-> FALSE, err |-> "UnusedTemplateParam", ctx |-> Some(id), attrs |-> attrs]
    ELSE [ok |-> TRUE, err |-> "", ctx |-> None,
          attrs |-> SelectSeq(attrs, LAMBDA a : ~IsBindgenAnnotation(a))]

\* The attributes a declaration is given: annotations with and without a
\* payload, of known and unknown names, payloads that parse and payloads
\* that do not, an annotation that does not parse as one, an attribute that
\* is no annotation, and the attributes parse_bindgen.rs reads.
Attributes ==
    { Annotation("visibility_private"),
      Attribute(<<"cpp_semantics", "bindgen_annotation">>, <<>>,
                Some("visibility_protected"), None, FALSE),
      Annotation("pure_virtual"),
      AnnotationWith("layout", <<Tok("int", "8", 8), Tok("int", "4", 4), Tok("bool", "false", 0)>>),
      AnnotationWith("layout", <<Tok("ident", "oops", 0)>>),
      AnnotationWith("original_name", <<Tok("str", "Orig", 0)>>),
      AnnotationWith("original_name", <<Tok("ident", "Orig", 0)>>),
      AnnotationWith("special_member", <<Tok("str", "move_ctor", 0)>>),
      AnnotationWith("arg_type_reference", <<Tok("ident", "x", 0)>>),
      AnnotationWith("arg_type_reference", <<Tok("str", "x", 0)>>),
      Annotation("arg_type_reference"),
      Annotation("ret_type_reference"),
      Annotation("unused_template_param"),
      AnnotationWith("frobnicate", <<Tok("int", "1", 1)>>),
      Attribute(<<"bindgen_annotation">>, <<>>, Some("unused_template_param"), None, TRUE),
      Attribute(<<"derive">>, <<Tok("ident", "Debug", 0)>>, Some("Debug"), None, FALSE),
      Attribute(<<"bindgen_layout">>, <<Tok("ident", "oops", 0)>>, Some("oops"), None, FALSE),
      Attribute(<<"bindgen_original_name">>, <<Tok("ident", "Orig", 0)>>,
                Some("Orig"), None, FALSE),
      Attribute(<<"bindgen_original_name">>, <<Tok("str", "Orig", 0)>>, None, None, TRUE) }

AttributeLists == SeqsUpTo(Attributes, MaxAttrs)

\* What a call gives back; every call fills the fields it has.
NoOut ==
    [panic |-> FALSE, err |-> "", ctx |-> None, vis |-> "", virt |-> "", layout |-> None,
     name |-> None, move |-> FALSE, ref_params |-> {}, ref_return |-> FALSE]

\* The functions that read the facts of a declaration.
Readers ==
    {"get_cpp_visibility", "get_virtualness", "get_layout", "get_original_name",
     "is_move_constructor", "get_reference_parameters_and_return",
     "get_bindgen_original_name_annotation", "parse_layout"}

\* The value of one reader on a list of attributes.
Decoded(op, attrs) ==
    LET anns == AnnotationsNew(attrs)
    IN  CASE op = "get_cpp_visibility" ->
                [NoOut EXCEPT !.vis = AnnotationsGetCppVisibility(anns)]
          [] op = "get_virtualness" ->
                [NoOut EXCEPT !.virt = AnnotationsGetVirtualness(anns)]
          [] op = "get_layout" ->
                [NoOut EXCEPT !.panic = get_layout(anns).panic, !.layout = get_layout(anns).v]
          [] op = "get_original_name" ->
                [NoOut EXCEPT !.panic = get_original_name(anns).panic,
                              !.name = get_original_name(anns).v]
          [] op = "is_move_constructor" ->
                [NoOut EXCEPT !.panic = is_move_constructor(anns).panic,
                              !.move = is_move_constructor(anns).v]
          [] op = "get_reference_parameters_and_return" ->
                LET r == get_reference_parameters_and_return(anns)
                IN  [NoOut EXCEPT !.panic = r.panic, !.ref_params = r.ref_params,
                                  !.ref_return = r.ref_return]
          [] op = "get_bindgen_original_name_annotation" ->
                [NoOut EXCEPT !.name = get_bindgen_original_name_annotation(attrs)]
          [] op = "parse_layout" ->
                [NoOut EXCEPT !.panic = parse_layout(attrs).panic,
                              !.layout = parse_layout(attrs).v]

\* The declaration whose attributes are decoded: its identifier, its
\* attributes as given, now, and before the last call, the last call and its
\* value, the number of calls of remove_bindgen_attrs.
Tagged(id, attrs) ==
    [id |-> id, given |-> attrs, attrs |-> attrs, before |-> attrs, op |-> "",
     out |-> NoOut, n |-> 0]

NoTagged == Tagged("", <<>>)

(***************************************************************************)
(* The pass.  The Vec<Item> is read in one forward traversal: the          *)
(* top-level list is fixed when parse_items is called, and the items of a  *)
(* mod's body are drawn as the loop of parse_mod_items reaches them, while *)
(* the input has nodes left.                                               *)
(***************************************************************************)
NoResult == [tag |-> "None", err |-> NoErr, apis |-> <<>>]

Frame(ns, path) ==
    [i |-> 1, ns |-> ns, path |-> path,
     mod_converter |-> ParseForeignModNew(ns), more_apis |-> <<>>]

Init ==
    /\ config \in Configs
    /\ leaves \in DOMAIN Vocabulary
    /\ input = <<>>
    /\ budget = 0
    /\ pc = "new"
    /\ apis = <<>>
    /\ stack = <<>>
    /\ result = NoResult
    /\ diagnostics = <<>>
    /\ events = <<>>
    /\ tagged = NoTagged

\* generate_utilities: the fixed bundle of utility entries.
generate_utilities(cfg) ==
    <<Entry("StringConstructor", ApiNameNewInRootNamespace("make_string"),
            "", None, None, None, <<>>, NoErr)>>

\* add_apis_from_config
add_apis_from_config(cfg) ==
    [i \in 1..Len(cfg.subclasses) |->
        Entry("Subclass", ApiNameNewInRootNamespace(cfg.subclasses[i].subclass), "", None,
              None, Some(NewFromCppName(cfg.subclasses[i].superclass)), <<>>, NoErr)]
    \o [i \in 1..Len(cfg.extern_rust_funs) |->
        Entry("RustFn", ApiNameNewInRootNamespace(cfg.extern_rust_funs[i]), "", None,
              None, None, <<>>, NoErr)]
    \o [i \in 1..Len(cfg.rust_types) |->
        Entry("RustType", ApiNameNewInRootNamespace(cfg.rust_types[i]), "", None,
              None, None, <<>>, NoErr)]

RECURSIVE find_items_in_root_or_fail(_, _)
\* find_items_in_root as it would be if running out of items were an error.
find_items_in_root_or_fail(items, k) ==
    IF k > Len(items) THEN [tag |-> "Err", at |-> 0]
    ELSE IF Decl[items[k]].kind # "Mod" THEN [tag |-> "Err", at |-> k]
    ELSE IF Decl[items[k]].ident # "root" THEN [tag |-> "Panic", at |-> k]
    ELSE IF Decl[items[k]].content THEN [tag |-> "Ok", at |-> k]
    ELSE find_items_in_root_or_fail(items, k + 1)

RECURSIVE find_items_in_root(_, _)
\* find_items_in_root, from the k-th top-level item on: tag "Ok" with the
\* index of the mod whose items are returned (0 when the loop ran out and
\* the empty Vec is returned), "Err" (UnexpectedOuterItem) or "Panic" (the
\* assertion on the mod's name).
find_items_in_root(items, k) ==
    IF k > Len(items) THEN [tag |-> "Ok", at |-> 0]
    ELSE IF Decl[items[k]].kind # "Mod" THEN [tag |-> "Err", at |-> k]
    ELSE IF Decl[items[k]].ident # "root" THEN [tag |-> "Panic", at |-> k]
    ELSE IF Decl[items[k]].content THEN [tag |-> "Ok", at |-> k]
    ELSE find_items_in_root(items, k + 1)

\* The entries parse_items starts the walk with.
InitialApis(cfg) ==
    (IF ExcludeUtilities(cfg) THEN <<>> ELSE generate_utilities(cfg))
    \o add_apis_from_config(cfg)

\* parse_items up to the call of parse_mod_items on the root namespace.
ParseItemsBegin ==
    /\ pc = "new"
    /\ \E items \in TopLevels :
         LET r == find_items_in_root(items, 1)
         IN  /\ input' = items
             /\ IF r.tag = "Ok"
                THEN /\ apis' = InitialApis(config)
                     /\ stack' = <<Frame(NamespaceNew, <<r.at>>)>>
                     /\ budget' = IF r.at = 0 THEN 0 ELSE MaxNodes - Len(items)
                     /\ pc' = "walk"
                     /\ result' = result
                ELSE /\ apis' = apis
                     /\ stack' = stack
                     /\ budget' = budget
                     /\ pc' = "done"
                     /\ result' = IF r.tag = "Err"
                                  THEN [tag |-> "Err", apis |-> <<>>,
                                        err |-> ConvertErr("UnexpectedOuterItem", None, None)]
                                  ELSE [tag |-> "Panic", apis |-> <<>>, err |-> NoErr]
    /\ UNCHANGED <<config, leaves, diagnostics, events, tagged>>

Top == stack[Len(stack)]

\* The loop of parse_mod_items has another item.
HasItem == pc = "walk" /\ Len(stack) > 0 /\ budget > 0

CurSrc == Append(Top.path, Top.i)

ReplaceTop(f) == [stack EXCEPT ![Len(stack)] = f]

\* What report_any_error pushes on more_apis for a failure: a marker entry
\* named after the error's context, when it has one.
IgnoredItem(ns, o) ==
    IF IsSome(o.ctx)
    THEN <<Entry("IgnoredItem", ApiNameNewWithCppName(ns, Unwrap(o.ctx), None), "", None,
                 None, None, <<>>, o.err)>>
    ELSE <<>>

\* One turn of the loop of parse_mod_items for an item that is no mod:
\* report_any_error around the arm of parse_item whose outcome is o.
ReportAnyError(item, o) ==
    /\ events' = Append(events, [ev |-> "item", src |-> CurSrc, ns |-> Top.ns,
                                 item |-> item, tag |-> o.tag])
    /\ budget' = budget - 1
    /\ IF o.tag = "Panic"
       THEN /\ pc' = "done"
            /\ result' = [tag |-> "Panic", apis |-> <<>>, err |-> NoErr]
            /\ UNCHANGED <<apis, stack, diagnostics>>
       ELSE /\ pc' = pc
            /\ result' = result
            /\ apis' = apis \o o.push
            /\ diagnostics' = IF o.tag = "Err"
                               THEN Append(diagnostics,
                                           [ns |-> Top.ns, ctx |-> o.ctx, err |-> o.err])
                               ELSE diagnostics
            /\ stack' = ReplaceTop([Top EXCEPT
                            !.i = @ + 1,
                            !.mod_converter = o.conv,
                            !.more_apis = IF o.tag = "Err" THEN @ \o IgnoredItem(Top.ns, o)
                                          ELSE @])
    /\ UNCHANGED <<config, leaves, input, tagged>>

LeavesOfKind(kind) == {it \in Vocabulary[leaves] : Decl[it].kind = kind}

ParseItemForeignMod ==
    /\ HasItem
    /\ \E it \in LeavesOfKind("ForeignMod") :
         ReportAnyError(it, ParseForeignModArm(config, Decl[it], Top.mod_converter, Top.ns, CurSrc))

ParseItemStruct ==
    /\ HasItem
    /\ \E it \in LeavesOfKind("Struct") :
         ReportAnyError(it, ParseStructArm(config, Decl[it], Top.mod_converter, Top.ns, CurSrc))

ParseItemEnum ==
    /\ HasItem
    /\ \E it \in LeavesOfKind("Enum") :
         ReportAnyError(it, ParseEnumArm(config, Decl[it], Top.mod_converter, Top.ns, CurSrc))

ParseItemImpl ==
    /\ HasItem
    /\ \E it \in LeavesOfKind("Impl") :
         ReportAnyError(it, ParseImplArm(config, Decl[it], Top.mod_converter, Top.ns, CurSrc))

ParseItemUse ==
    /\ HasItem
    /\ \E it \in LeavesOfKind("Use") :
         ReportAnyError(it, ParseUseArm(config, Decl[it], Top.mod_converter, Top.ns, CurSrc))

ParseItemConst ==
    /\ HasItem
    /\ \E it \in LeavesOfKind("Const") :
         ReportAnyError(it, ParseConstArm(config, Decl[it], Top.mod_converter, Top.ns, CurSrc))

ParseItemType ==
    /\ HasItem
    /\ \E it \in LeavesOfKind("Type") :
         ReportAnyError(it, ParseTypeArm(config, Decl[it], Top.mod_converter, Top.ns, CurSrc))

ParseItemOther ==
    /\ HasItem
    /\ \E it \in LeavesOfKind("Other") :
         ReportAnyError(it, ParseOtherArm(config, Decl[it], Top.mod_converter, Top.ns, CurSrc))

\* Item::Mod: with a body, parse_mod_items is entered for the nested
\* namespace; the arm returns Ok(()) once that call is over.
ParseItemMod ==
    /\ HasItem
    /\ \E it \in NestedMods :
         /\ events' = Append(events, [ev |-> "item", src |-> CurSrc, ns |-> Top.ns,
                                      item |-> it, tag |-> "Ok"])
         /\ stack' = IF Decl[it].content
                      THEN Append(ReplaceTop([Top EXCEPT !.i = @ + 1]),
                                  Frame(NamespacePush(Top.ns, Decl[it].ident), CurSrc))
                      ELSE ReplaceTop([Top EXCEPT !.i = @ + 1])
    /\ budget' = budget - 1
    /\ UNCHANGED <<config, leaves, input, pc, apis, result, diagnostics, tagged>>

\* The end of parse_mod_items: more_apis is appended, the accumulator is
\* finished, and the walk returns to the enclosing namespace.
ParseModItemsEnd ==
    /\ pc = "walk" /\ Len(stack) > 0
    /\ apis' = apis \o Top.more_apis \o finished(Top.mod_converter)
    /\ events' = Append(events, [ev |-> "finished", src |-> Top.path, ns |-> Top.ns,
                                 item |-> "}", tag |-> "Ok"])
    /\ stack' = SubSeq(stack, 1, Len(stack) - 1)
    /\ pc' = IF Len(stack) = 1 THEN "validate" ELSE "walk"
    /\ UNCHANGED <<config, leaves, input, budget, result, diagnostics, tagged>>

\* The set of to_cpp_name() of the names of all entries.
ApiNames(as) == {ToCppName(ApiNameOf(as[i])) : i \in 1..Len(as)}

RECURSIVE FirstMissing(_, _)
\* The loop over must_generate_list: the first directive with no entry.
FirstMissing(directives, names) ==
    IF directives = <<>> THEN None
    ELSE IF Head(directives) \notin names THEN Some(Head(directives))
    ELSE FirstMissing(Tail(directives), names)

\* confirm_all_generate_directives_obeyed as it would be if the loop
\* returned after its first directive.
confirm_first_generate_directive_obeyed(cfg, as) ==
    IF MustGenerateList(cfg) = <<>> THEN None
    ELSE FirstMissing(<<Head(MustGenerateList(cfg))>>, ApiNames(as))

\* confirm_all_generate_directives_obeyed: None, or the directive missed.
confirm_all_generate_directives_obeyed(cfg, as) ==
    FirstMissing(MustGenerateList(cfg), ApiNames(as))

\* The end of parse_items as it would be if a recorded failure failed the pass.
ParseItemsReturnFailingOnDiagnostics ==
    /\ pc = "validate"
    /\ LET missing == confirm_all_generate_directives_obeyed(config, apis)
       IN  result' = IF IsSome(missing)
                     THEN [tag |-> "Err", apis |-> <<>>,
                           err |-> DidNotGenerateAnything(Unwrap(missing))]
                     ELSE IF diagnostics # <<>>
                     THEN [tag |-> "Err", apis |-> <<>>,
                           err |-> ConvertErr("Diagnostics", None, None)]
                     ELSE [tag |-> "Ok", apis |-> apis, err |-> NoErr]
    /\ pc' = "done"
    /\ UNCHANGED <<config, leaves, input, budget, apis, stack, diagnostics, events, tagged>>

\* The end of parse_items.
ParseItemsReturn ==
    /\ pc = "validate"
    /\ LET missing == confirm_all_generate_directives_obeyed(config, apis)
       IN  result' = IF IsSome(missing)
                     THEN [tag |-> "Err", apis |-> <<>>,
                           err |-> DidNotGenerateAnything(Unwrap(missing))]
                     ELSE [tag |-> "Ok", apis |-> apis, err |-> NoErr]
    /\ pc' = "done"
    /\ UNCHANGED <<config, leaves, input, budget, apis, stack, diagnostics, events, tagged>>

Next ==
    \/ ParseItemsBegin
    \/ ParseItemForeignMod
    \/ ParseItemStruct
    \/ ParseItemEnum
    \/ ParseItemImpl
    \/ ParseItemMod
    \/ ParseItemUse
    \/ ParseItemConst
    \/ ParseItemType
    \/ ParseItemOther
    \/ ParseModItemsEnd
    \/ ParseItemsReturn

Spec == Init /\ [][Next]_vars

(***************************************************************************)
(* The decoding of one declaration's annotations: remove_bindgen_attrs,    *)
(* any number of times, then one of the readers.                           *)
(***************************************************************************)
walk == <<config, leaves, input, budget, pc, apis, stack, result, diagnostics, events>>

InitTags ==
    /\ config = Cfg(TRUE, <<>>, <<>>, <<>>, {}, <<>>)
    /\ leaves = "mixed"
    /\ input = <<>>
    /\ budget = 0
    /\ pc = "tags"
    /\ apis = <<>>
    /\ stack = <<>>
    /\ result = NoResult
    /\ diagnostics = <<>>
    /\ events = <<>>
    /\ \E attrs \in AttributeLists : tagged = Tagged("S", attrs)

CanCall == pc = "tags" /\ tagged.op \in {"", "remove_bindgen_attrs"}

RemoveBindgenAttrs ==
    /\ CanCall
    /\ tagged.n < MaxCalls
    /\ LET r == remove_bindgen_attrs(tagged.attrs, tagged.id)
       IN  tagged' = [tagged EXCEPT !.attrs = r.attrs, !.before = tagged.attrs,
                                    !.op = "remove_bindgen_attrs", !.n = @ + 1,
                                    !.out = [NoOut EXCEPT !.err = r.err, !.ctx = r.ctx]]
    /\ UNCHANGED walk

Read(op) ==
    /\ tagged' = [tagged EXCEPT !.before = tagged.attrs, !.op = op,
                                !.out = Decoded(op, tagged.attrs)]
    /\ UNCHANGED walk

GetCppVisibility ==
    /\ CanCall
    /\ Read("get_cpp_visibility")

GetVirtualness ==
    /\ CanCall
    /\ Read("get_virtualness")

GetLayout ==
    /\ CanCall
    /\ Read("get_layout")

GetOriginalName ==
    /\ CanCall
    /\ Read("get_original_name")

IsMoveConstructor ==
    /\ CanCall
    /\ Read("is_move_constructor")

GetReferenceParametersAndReturn ==
    /\ CanCall
    /\ Read("get_reference_parameters_and_return")

GetBindgenOriginalNameAnnotation ==
    /\ CanCall
    /\ Read("get_bindgen_original_name_annotation")

ParseLayout ==
    /\ CanCall
    /\ Read("parse_layout")

NextTags ==
    \/ RemoveBindgenAttrs
    \/ GetCppVisibility
    \/ GetVirtualness
    \/ GetLayout
    \/ GetOriginalName
    \/ IsMoveConstructor
    \/ GetReferenceParametersAndReturn
    \/ GetBindgenOriginalNameAnnotation
    \/ ParseLayout

SpecTags == InitTags /\ [][NextTags]_vars

(***************************************************************************)
(* Vocabulary of the properties.                                           *)
(***************************************************************************)
ItemEvents == {i \in 1..Len(events) : events[i].ev = "item"}

FinishedEvents == {i \in 1..Len(events) : events[i].ev = "finished"}

ErrEvents == {i \in ItemEvents : events[i].tag = "Err"}

\* The rank of the i-th event among the failures caught so far.
ErrRank(i) == Cardinality({j \in ErrEvents : j <= i})

\* The identifier a declaration is known by: its own, or the new name of a
\* renaming re-export; "" when it has none.
DeclIdent(it) ==
    IF Decl[it].kind = "Use"
    THEN (IF Decl[it].tree.t = "Rename" THEN Decl[it].tree.rename ELSE "")
    ELSE Decl[it].ident

KindOf(e) == Decl[e.item].kind

\* parse_mod_items has returned for the root namespace and parse_items is over.
WalkCompleted ==
    /\ pc = "done"
    /\ Len(stack) = 0
    /\ events # <<>>
    /\ events[Len(events)].ev = "finished"

EntriesFrom(src) == {i \in 1..Len(apis) : apis[i].src = src /\ apis[i].kind # "IgnoredItem"}

MissingDirectiveError == result.tag = "Err" /\ result.err.kind = "DidNotGenerateAnything"

StructuralError == result.tag = "Err" /\ result.err.kind = "UnexpectedOuterItem"

Panicked == result.tag = "Panic"

\* The failures C1 lists: an invalid identifier, a re-export that is not
\* converted, a declaration of an unexpected kind.
ListedFailure(e) ==
    \/ KindOf(e) \in {"Struct", "Enum"} /\ e.tag = "Err"
    \/ KindOf(e) = "Use" /\ e.tag # "Ok"
    \/ KindOf(e) = "Other"

\* Whether the code gives the failure of a declaration a context.
HasContext(it) ==
    \/ Decl[it].kind \in {"Struct", "Enum"}
    \/ Decl[it].kind = "Use" /\ Decl[it].tree.t = "Rename"

(***************************************************************************)
(* C1 as stated: every listed failure is caught, recorded as exactly one   *)
(* diagnostic and attributed to the identity of the failing declaration.   *)
(***************************************************************************)
C1_AsStated ==
    \A i \in ItemEvents :
        ListedFailure(events[i]) =>
            /\ events[i].tag = "Err"
            /\ ErrRank(i) <= Len(diagnostics)
            /\ diagnostics[ErrRank(i)].ctx = Some(DeclIdent(events[i].item))

(***************************************************************************)
(* C1, amended: a failure that parse_item returns as an error value        *)
(* (invalid identifier, self-referential re-export, a re-export that is    *)
(* neither a rename nor the bare `root`, an unexpected kind of item) is    *)
(* caught and recorded as exactly one diagnostic, in the namespace of the  *)
(* declaration, and the loop goes on with the next item; the diagnostic    *)
(* names the declaration for an invalid identifier and a self-referential  *)
(* re-export and carries no context for the other two.  The entries of     *)
(* the declarations converted before and after it are in the collection.   *)
(***************************************************************************)
C1_ErrorIsolation ==
    /\ Len(diagnostics) = Cardinality(ErrEvents)
    /\ \A i \in ErrEvents :
          LET e == events[i]
              d == diagnostics[ErrRank(i)]
          IN  /\ d.ns = e.ns
              /\ d.ctx = IF HasContext(e.item) THEN Some(DeclIdent(e.item)) ELSE None
              /\ EntriesFrom(e.src) = {}
              /\ i = Len(events) =>
                    /\ pc = "walk"
                    /\ Top.ns = e.ns
                    /\ Append(Top.path, Top.i - 1) = e.src
    /\ \A i \in ItemEvents :
          LET e == events[i]
          IN  e.tag = "Ok" /\ KindOf(e) \in {"Const", "Type"} =>
                  Cardinality(EntriesFrom(e.src)) = 1

\* Two siblings in the root namespace, the first with an invalid identifier
\* and the second well-formed: one diagnostic, naming the first, and the
\* entry of the second.
C1_Witness ==
    /\ Len(events) = 2
    /\ events[1].tag = "Err" /\ events[1].item = "struct bad { x }"
    /\ events[2].tag = "Ok" /\ events[2].item = "enum E"
    /\ events[1].ns = <<>> /\ events[2].ns = <<>>
    /\ Len(diagnostics) = 1 /\ diagnostics[1].ctx = Some("bad")
    /\ \E i \in EntriesFrom(events[2].src) :
          apis[i].kind = "Enum" /\ apis[i].name = QualifiedNameNew(<<>>, "E")

(***************************************************************************)
(* C2: once the walk and every finalization are over, parse_items returns  *)
(* the missing-directive error, naming a missing directive, if and only if *)
(* some must-generate name is the name of no entry of the collection,      *)
(* whatever the kind of the entry; otherwise it returns the collection as  *)
(* it stands.                                                              *)
(***************************************************************************)
Present(q) == \E i \in 1..Len(apis) : apis[i].name.ns \o <<apis[i].name.id>> = q

MissingDirectives ==
    {config.must_generate[k] : k \in {j \in 1..Len(config.must_generate) :
                                          ~Present(config.must_generate[j])}}

C2_DirectiveValidation ==
    WalkCompleted =>
        /\ MissingDirectiveError <=> MissingDirectives # {}
        /\ MissingDirectiveError => result.err.dir \in MissingDirectives
        /\ MissingDirectives = {} => result.tag = "Ok" /\ result.apis = apis

\* A pass under must-generate R, f: R is there from the configuration, f is
\* not, though declarations were walked.
C2_Witness ==
    /\ WalkCompleted
    /\ config.must_generate = << <<"R">>, <<"f">> >>
    /\ ItemEvents # {}
    /\ Present(<<"R">>)
    /\ MissingDirectiveError /\ result.err.dir = <<"f">>

(***************************************************************************)
(* C3 as stated: no entry built from walking, of any kind, bears a         *)
(* blocklisted name, and a must-generate name on the blocklist makes the   *)
(* pass fail with the missing-directive error.                             *)
(***************************************************************************)
Blocklisted(api) == (api.name.ns \o <<api.name.id>>) \in config.blocklist

C3_AsStated ==
    /\ \A i \in 1..Len(apis) :
          apis[i].kind \in {"Struct", "ForwardDeclaration", "Enum", "Typedef", "Const"}
              => ~Blocklisted(apis[i])
    /\ WalkCompleted =>
          \A k \in 1..Len(config.must_generate) :
              config.must_generate[k] \in config.blocklist => MissingDirectiveError

(***************************************************************************)
(* C3, amended: a Struct, ForwardDeclaration or Enum candidate with a      *)
(* blocklisted name is dropped; Typedef and Const entries are pushed       *)
(* whatever the blocklist says.  A must-generate name on the blocklist     *)
(* makes the pass fail with the missing-directive error unless an entry of *)
(* another kind bears that name.                                           *)
(***************************************************************************)
C3_BlocklistFiltering ==
    /\ \A i \in 1..Len(apis) :
          apis[i].kind \in {"Struct", "ForwardDeclaration", "Enum"} => ~Blocklisted(apis[i])
    /\ \A i \in ItemEvents :
          KindOf(events[i]) \in {"Const", "Type"} =>
              \E j \in EntriesFrom(events[i].src) :
                  apis[j].name = QualifiedNameNew(events[i].ns, DeclIdent(events[i].item))
    /\ WalkCompleted =>
          \A k \in 1..Len(config.must_generate) :
              LET q == config.must_generate[k]
              IN  /\ q \in config.blocklist
                  /\ \A i \in 1..Len(apis) :
                        apis[i].name.ns \o <<apis[i].name.id>> = q =>
                            apis[i].kind \in {"Struct", "ForwardDeclaration", "Enum"}
                  => MissingDirectiveError /\ result.err.dir = q

\* S is on the blocklist and must be generated; `struct S` was walked in the
\* root namespace, and the pass fails for want of S.
C3_Witness ==
    /\ WalkCompleted
    /\ <<"S">> \in config.blocklist
    /\ \E i \in ItemEvents :
          events[i].item = "struct S { x }" /\ events[i].ns = <<>> /\ events[i].tag = "Ok"
    /\ MissingDirectiveError /\ result.err.dir = <<"S">>

(***************************************************************************)
(* C4 as stated: unless the top-level input is exactly one root mod with   *)
(* a body, parse_items returns the structural error and nothing is         *)
(* processed.                                                              *)
(***************************************************************************)
ExactlyOneRootGroup == input = <<"mod root { .. }">>

C4_AsStated ==
    pc = "done" /\ ~Panicked /\ ~ExactlyOneRootGroup =>
        StructuralError /\ events = <<>> /\ apis = <<>>

(***************************************************************************)
(* C4, amended: the top-level items are looked at in order, past every     *)
(* `root` mod that has no body.  The first other item decides: an item     *)
(* that is no mod gives the structural error, with nothing processed and   *)
(* nothing returned; a mod of another name fails the assertion; a `root`   *)
(* mod with a body is the one walked, and the items after it are ignored.  *)
(* When there is no other item (no top-level item at all, or only          *)
(* body-less root mods), the walk runs over no declaration and the pass    *)
(* goes on to the directive check.                                         *)
(***************************************************************************)
Skipped(k) == \A j \in 1..(k - 1) : input[j] = "mod root;"

Deciding == {k \in 1..Len(input) : input[k] # "mod root;" /\ Skipped(k)}

C4_OuterShape ==
    pc # "new" =>
        /\ Deciding = {} =>
              ~StructuralError /\ ~Panicked /\ ItemEvents = {} /\ pc \in {"walk", "validate", "done"}
        /\ \A k \in Deciding :
              /\ Decl[input[k]].kind # "Mod" =>
                    /\ StructuralError /\ pc = "done"
                    /\ events = <<>> /\ apis = <<>> /\ result.apis = <<>>
              /\ Decl[input[k]].kind = "Mod" /\ Decl[input[k]].ident # "root" =>
                    Panicked /\ events = <<>> /\ apis = <<>>
              /\ input[k] = "mod root { .. }" =>
                    /\ ~StructuralError
                    /\ \A i \in 1..Len(events) : events[i].src[1] = k
        /\ StructuralError => Deciding # {}

\* A root mod with a body followed by an item that is no mod: the mod is
\* walked and the pass returns Ok.
C4_Witness ==
    /\ input = <<"mod root { .. }", "fn g">>
    /\ ItemEvents # {}
    /\ result.tag = "Ok"

(***************************************************************************)
(* C5 as stated: parse_items returns Ok only when no diagnostic was        *)
(* recorded.                                                               *)
(***************************************************************************)
C5_AsStated == pc = "done" /\ result.tag = "Ok" => diagnostics = <<>>

(***************************************************************************)
(* C5, amended: diagnostics do not fail the pass.  Once the walk is over,  *)
(* parse_items returns Ok exactly when every must-generate name is         *)
(* present, whatever was recorded; the collection returned is the whole    *)
(* collection, with an entry for every constant and type alias walked and  *)
(* none for a declaration that failed; when parse_items fails nothing is   *)
(* returned.                                                               *)
(***************************************************************************)
C5_Outcome ==
    /\ WalkCompleted => (result.tag = "Ok" <=> MissingDirectives = {})
    /\ result.tag = "Ok" =>
          /\ WalkCompleted
          /\ result.apis = apis
          /\ \A i \in ItemEvents :
                /\ events[i].tag = "Ok" /\ KindOf(events[i]) \in {"Const", "Type"}
                      => EntriesFrom(events[i].src) # {}
                /\ events[i].tag = "Err" => EntriesFrom(events[i].src) = {}
    /\ pc = "done" /\ result.tag # "Ok" => result.apis = <<>>

\* A pass that returns Ok after two diagnostics, one with a context and one
\* without.
C5_Witness ==
    /\ result.tag = "Ok"
    /\ Len(diagnostics) = 2
    /\ IsSome(diagnostics[1].ctx) /\ ~IsSome(diagnostics[2].ctx)

(***************************************************************************)
(* C6: the collection starts with the utility entries (unless suppressed), *)
(* then the Subclass, RustFn and RustType entries of the configuration,    *)
(* then the entries of the walk, in depth-first source order; the          *)
(* accumulator of a namespace is finished exactly once, after all the      *)
(* declarations and nested namespaces of that namespace, and its function  *)
(* entries come before any entry of a later declaration of the parent.     *)
(***************************************************************************)
IsPrefix(p, q) == Len(p) <= Len(q) /\ SubSeq(q, 1, Len(p)) = p

RECURSIVE LexLeq(_, _)
LexLeq(a, b) ==
    IF a = <<>> THEN TRUE
    ELSE IF b = <<>> THEN FALSE
    ELSE IF Head(a) # Head(b) THEN Head(a) < Head(b)
    ELSE LexLeq(Tail(a), Tail(b))

Rank(api) ==
    CASE api.kind = "StringConstructor" -> 0
      [] api.kind = "Subclass" -> 1
      [] api.kind = "RustFn" -> 2
      [] api.kind = "RustType" -> 3
      [] OTHER -> 4

Walked(api) == api.kind \in {"Struct", "ForwardDeclaration", "Enum", "Typedef", "Const"}

\* Where an entry belongs in the depth-first order: a walked entry at its
\* declaration, a function entry at the end of its namespace.
OrderKey(api) ==
    IF api.kind = "Function"
    THEN SubSeq(api.src, 1, Len(api.src) - 1) \o <<MaxNodes + 1, api.src[Len(api.src)]>>
    ELSE api.src

\* The entries of the walk: those of declarations and the function entries.
Placed == {i \in 1..Len(apis) : Walked(apis[i]) \/ apis[i].kind = "Function"}

CountOfKind(kind) == Cardinality({i \in 1..Len(apis) : apis[i].kind = kind})

\* The namespaces the walk has entered: the root and every mod with a body.
Opened ==
    {stack[k].path : k \in 1..Len(stack)}
    \cup {events[i].src : i \in {j \in ItemEvents : events[j].item = "mod a { .. }"}}
    \cup {events[i].src : i \in FinishedEvents}

C6_OutputOrdering ==
    /\ \A i \in 1..(Len(apis) - 1) : Rank(apis[i]) <= Rank(apis[i + 1])
    /\ pc \in {"walk", "validate"} \/ WalkCompleted =>
          /\ CountOfKind("StringConstructor") = IF config.exclude_utilities THEN 0 ELSE 1
          /\ CountOfKind("Subclass") = Len(config.subclasses)
          /\ CountOfKind("RustFn") = Len(config.extern_rust_funs)
          /\ CountOfKind("RustType") = Len(config.rust_types)
    /\ \A i, j \in Placed :
          i < j => /\ LexLeq(OrderKey(apis[i]), OrderKey(apis[j]))
                   /\ OrderKey(apis[i]) = OrderKey(apis[j]) => apis[i].src = apis[j].src
    /\ \A i, j \in FinishedEvents : events[i].src = events[j].src => i = j
    /\ \A i \in FinishedEvents :
          \A j \in 1..Len(events) : IsPrefix(events[i].src, events[j].src) => j <= i
    /\ \A i \in 1..Len(apis) :
          apis[i].kind = "Function" =>
              \E j \in FinishedEvents : Append(events[j].src, apis[i].src[Len(apis[i].src)]) = apis[i].src
    /\ \A i \in ItemEvents :
          LET e == events[i]
          IN  /\ KindOf(e) = "ForeignMod"
              /\ \E j \in FinishedEvents : Append(events[j].src, e.src[Len(e.src)]) = e.src
              => Cardinality(EntriesFrom(e.src)) = Len(Decl[e.item].fns)
    /\ WalkCompleted => \A p \in Opened : \E i \in FinishedEvents : events[i].src = p

\* `mod a { extern { fn f } }` followed by `const S` in the root namespace:
\* the function a::f comes after the configuration's entries and before S.
C6_Witness ==
    /\ result.tag = "Ok"
    /\ ~config.exclude_utilities
    /\ Len(config.subclasses) > 0
    /\ \E i, j \in 1..Len(result.apis) :
          /\ i < j
          /\ result.apis[i].kind = "Function" /\ result.apis[i].name.ns = <<"a">>
          /\ result.apis[j].kind = "Const" /\ result.apis[j].name.ns = <<>>

(***************************************************************************)
(* C7 as stated: a renaming re-export whose old name resolves to its new   *)
(* name fails with the self-referential-alias error and yields no Typedef; *)
(* in particular `use self::super::foo as foo` inside namespace a fails.   *)
(***************************************************************************)
RenameEvents ==
    {i \in ItemEvents :
        /\ KindOf(events[i]) = "Use"
        /\ Decl[events[i].item].tree.t = "Rename"
        /\ IsPrefix(<<"self", "super">>, Decl[events[i].item].tree.segs)}

StripRoot(path) == IF Len(path) > 1 /\ path[1] = "root" THEN Tail(path) ELSE path

\* The path of a renaming re-export after `self::super`, with the old
\* identifier, and the path of its new name.
OldPath(e) ==
    LET tree == Decl[e.item].tree
    IN  StripRoot(SubSeq(tree.segs, 3, Len(tree.segs)) \o <<tree.ident>>)

NewPath(e) == e.ns \o <<Decl[e.item].tree.rename>>

SelfReferenceRejected(i) ==
    /\ events[i].tag = "Err"
    /\ diagnostics[ErrRank(i)].err.kind = "InfinitelyRecursiveTypedef"
    /\ EntriesFrom(events[i].src) = {}

C7_AsStated ==
    /\ \A i \in RenameEvents :
          OldPath(events[i]) = NewPath(events[i]) => SelfReferenceRejected(i)
    /\ \A i \in ItemEvents :
          events[i].item = "use self::super::foo as foo;" /\ events[i].ns = <<"a">>
              => SelfReferenceRejected(i)

(***************************************************************************)
(* C7, amended: the old name is the path after `self::super` read from the *)
(* root (a leading `root` segment dropped), whatever the current           *)
(* namespace.  The re-export fails with the self-referential-alias error,  *)
(* naming the new qualified name, exactly when that path is the path of    *)
(* the new name, and then yields no Typedef.  `use self::super::foo as     *)
(* foo` fails in the root namespace and `use self::super::a::foo as foo`   *)
(* fails inside a; `use self::super::foo as foo` inside a does not fail.   *)
(***************************************************************************)
C7_SelfReference ==
    \A i \in RenameEvents :
        LET e == events[i]
        IN  /\ OldPath(e) = NewPath(e) <=> e.tag = "Err"
            /\ e.tag # "Panic"
            /\ e.tag = "Err" =>
                  /\ SelfReferenceRejected(i)
                  /\ diagnostics[ErrRank(i)].err.qn
                        = Some(QualifiedNameNew(e.ns, Decl[e.item].tree.rename))
                  /\ diagnostics[ErrRank(i)].ctx = Some(Decl[e.item].tree.rename)
            /\ e.item = "use self::super::foo as foo;" => (e.tag = "Err" <=> e.ns = <<>>)
            /\ e.item = "use self::super::a::foo as foo;" => (e.tag = "Err" <=> e.ns = <<"a">>)

\* `use self::super::a::foo as foo` inside namespace a is rejected.
C7_Witness ==
    \E i \in RenameEvents :
        /\ events[i].item = "use self::super::a::foo as foo;"
        /\ events[i].ns = <<"a">>
        /\ SelfReferenceRejected(i)

(***************************************************************************)
(* C8 as stated: a renaming re-export in namespace N yields exactly one    *)
(* Typedef N::new whose old name is the path after `self::super` taken     *)
(* relative to the parent of N; for `use self::super::foo as bar` inside a *)
(* the old name is a::foo.                                                 *)
(***************************************************************************)
Parent(ns) == SubSeq(ns, 1, Len(ns) - 1)

PathToName(path) == [ns |-> SubSeq(path, 1, Len(path) - 1), id |-> path[Len(path)]]

TypedefOf(i, old) ==
    /\ Cardinality(EntriesFrom(events[i].src)) = 1
    /\ \A j \in EntriesFrom(events[i].src) :
          /\ apis[j].kind = "Typedef"
          /\ apis[j].name = QualifiedNameNew(events[i].ns, Decl[events[i].item].tree.rename)
          /\ apis[j].old_tyname = Some(old)

C8_AsStated ==
    /\ \A i \in RenameEvents :
          events[i].tag = "Ok" =>
              TypedefOf(i, PathToName(Parent(events[i].ns) \o OldPath(events[i])))
    /\ \A i \in ItemEvents :
          events[i].item = "use self::super::foo as bar;" /\ events[i].ns = <<"a">>
              => TypedefOf(i, QualifiedNameNew(<<"a">>, "foo"))

(***************************************************************************)
(* C8, amended: a renaming re-export `use self::super::<path>::old as new` *)
(* in namespace N that is not self-referential yields exactly one Typedef  *)
(* N::new whose old name is <path>::old read from the root (a leading      *)
(* `root` segment dropped), whatever N is; a self-referential one yields   *)
(* none.  For `use self::super::foo as bar` inside a this is the Typedef   *)
(* a::bar with old name foo.                                               *)
(***************************************************************************)
C8_RenameResolution ==
    \A i \in RenameEvents :
        LET e == events[i]
        IN  /\ OldPath(e) # NewPath(e) => e.tag = "Ok" /\ TypedefOf(i, PathToName(OldPath(e)))
            /\ OldPath(e) = NewPath(e) => EntriesFrom(e.src) = {}
            /\ e.item = "use self::super::foo as bar;" =>
                  TypedefOf(i, QualifiedNameNew(<<>>, "foo"))

\* `use self::super::foo as bar` inside a::a: the Typedef a::a::bar with old
\* name foo.
C8_Witness ==
    \E i \in RenameEvents :
        /\ events[i].item = "use self::super::foo as bar;"
        /\ events[i].ns = <<"a", "a">>
        /\ TypedefOf(i, QualifiedNameNew(<<>>, "foo"))

(***************************************************************************)
(* C9 as stated: the collection holds at most one entry per qualified      *)
(* name.                                                                   *)
(***************************************************************************)
C9_AsStated ==
    \A i, j \in 1..Len(apis) : apis[i].name = apis[j].name => i = j

(***************************************************************************)
(* C9, amended: the pass removes no duplicate.  Every walked declaration   *)
(* contributes at most one entry, named by the namespace and identifier of *)
(* the declaration (a function entry by its namespace and the function's   *)
(* identifier), so two entries of the walk bear the same qualified name    *)
(* only when two declarations do.                                          *)
(***************************************************************************)
C9_OneEntryPerDeclaration ==
    /\ \A i, j \in 1..Len(apis) :
          Walked(apis[i]) /\ Walked(apis[j]) /\ apis[i].src = apis[j].src => i = j
    /\ \A i \in 1..Len(apis) :
          Walked(apis[i]) =>
              \E k \in ItemEvents :
                  /\ events[k].src = apis[i].src
                  /\ events[k].tag = "Ok"
                  /\ apis[i].name = QualifiedNameNew(events[k].ns, DeclIdent(events[k].item))
    /\ \A i \in 1..Len(apis) :
          apis[i].kind = "Function" =>
              \E k \in ItemEvents :
                  /\ events[k].src = apis[i].src
                  /\ KindOf(events[k]) = "ForeignMod"
                  /\ apis[i].name.ns = events[k].ns
                  /\ \E n \in 1..Len(Decl[events[k].item].fns) :
                        apis[i].name.id = Decl[events[k].item].fns[n]

\* `struct S` and `const S` in the same namespace: two entries named S.
C9_Witness ==
    \E i, j \in 1..Len(apis) :
        /\ apis[i].kind = "Struct" /\ apis[j].kind = "Const"
        /\ apis[i].name = apis[j].name
        /\ apis[i].src # apis[j].src

(***************************************************************************)
(* C10 as stated: for an aggregate that is converted, the rules apply in   *)
(* the order vtable suffix (nothing), forward declaration                  *)
(* (ForwardDeclaration), configured Rust type in the root namespace        *)
(* (nothing), Struct.                                                      *)
(***************************************************************************)
StructEvents == {i \in ItemEvents : KindOf(events[i]) = "Struct"}

HasField(it, f) == \E k \in 1..Len(Decl[it].fields) : Decl[it].fields[k] = f

IsConfiguredRustType(id) == \E k \in 1..Len(config.rust_types) : config.rust_types[k] = id

OnBlocklist(e) == (e.ns \o <<Decl[e.item].ident>>) \in config.blocklist

YieldsKind(e, kind) ==
    /\ Cardinality(EntriesFrom(e.src)) = 1
    /\ \A j \in EntriesFrom(e.src) :
          /\ apis[j].kind = kind
          /\ apis[j].name = QualifiedNameNew(e.ns, Decl[e.item].ident)

C10_AsStated ==
    \A i \in StructEvents :
        LET e == events[i]
            id == Decl[e.item].ident
        IN  /\ e.tag = "Ok" /\ ~OnBlocklist(e)
            /\ HasField(e.item, "_unused") => Decl[e.item].fields = <<"_unused">>
            =>  IF id \in VtableIdents THEN EntriesFrom(e.src) = {}
                ELSE IF HasField(e.item, "_unused") THEN YieldsKind(e, "ForwardDeclaration")
                ELSE IF e.ns = <<>> /\ IsConfiguredRustType(id) THEN EntriesFrom(e.src) = {}
                ELSE YieldsKind(e, "Struct")

(***************************************************************************)
(* C10, amended: for an aggregate, in this order: (1) an identifier with   *)
(* the vtable suffix yields nothing; (2) an invalid identifier is a        *)
(* failure of the declaration; (3) in the root namespace, a configured     *)
(* Rust type yields nothing, forward-declared or not; (4) a field named    *)
(* `_unused` among the fields yields ForwardDeclaration; (5) otherwise     *)
(* Struct, with Private visibility if the private tag is present, else     *)
(* Protected if the protected tag is present, else Public, and the layout  *)
(* of the first layout tag, whose malformed payload panics.  The entry of  *)
(* (4) or (5) is dropped when its name is on the blocklist.                *)
(***************************************************************************)
HasTag(it, name) == \E k \in 1..Len(Decl[it].attrs) : Decl[it].attrs[k].path = <<name>>

LayoutTags(it) == {k \in 1..Len(Decl[it].attrs) : Decl[it].attrs[k].path = <<"bindgen_layout">>}

FirstLayoutTag(it) ==
    Decl[it].attrs[CHOOSE k \in LayoutTags(it) : \A m \in LayoutTags(it) : k <= m]

ExpectedVisibility(it) ==
    CASE HasTag(it, "bindgen_visibility_private") -> "Private"
      [] ~HasTag(it, "bindgen_visibility_private") /\ HasTag(it, "bindgen_visibility_protected")
            -> "Protected"
      [] OTHER -> "Public"

LayoutReadable(a) ==
    Len(a.args) = 3 /\ a.args[1].k = "int" /\ a.args[2].k = "int" /\ a.args[3].k = "bool"

C10_AggregateClassification ==
    \A i \in StructEvents :
        LET e == events[i]
            it == e.item
            id == Decl[it].ident
        IN  CASE id \in VtableIdents -> e.tag = "Ok" /\ EntriesFrom(e.src) = {}
              [] id \notin VtableIdents /\ id \in InvalidIdents ->
                    e.tag = "Err" /\ EntriesFrom(e.src) = {}
              [] id \notin VtableIdents /\ id \notin InvalidIdents
                 /\ e.ns = <<>> /\ IsConfiguredRustType(id) ->
                    e.tag = "Ok" /\ EntriesFrom(e.src) = {}
              [] OTHER ->
                    IF HasField(it, "_unused")
                    THEN /\ e.tag = "Ok"
                         /\ IF OnBlocklist(e) THEN EntriesFrom(e.src) = {}
                            ELSE YieldsKind(e, "ForwardDeclaration")
                    ELSE IF LayoutTags(it) # {} /\ ~LayoutReadable(FirstLayoutTag(it))
                    THEN e.tag = "Panic"
                    ELSE /\ e.tag = "Ok"
                         /\ IF OnBlocklist(e) THEN EntriesFrom(e.src) = {}
                            ELSE /\ YieldsKind(e, "Struct")
                                 /\ \A j \in EntriesFrom(e.src) :
                                       /\ apis[j].vis = ExpectedVisibility(it)
                                       /\ IsSome(apis[j].layout) <=> LayoutTags(it) # {}
                                       /\ IsSome(apis[j].layout) =>
                                             /\ apis[j].layout[1].size = FirstLayoutTag(it).args[1].n
                                             /\ apis[j].layout[1].align = FirstLayoutTag(it).args[2].n

\* A forward declaration of the configured Rust type R in the root
\* namespace: converted without error, and no entry.
C10_Witness ==
    \E i \in StructEvents :
        /\ events[i].item = "struct R { _unused }"
        /\ events[i].ns = <<>>
        /\ IsConfiguredRustType("R")
        /\ events[i].tag = "Ok"
        /\ EntriesFrom(events[i].src) = {}
        /\ pc = "done"

(***************************************************************************)
(* C11 as stated: a re-export that is neither the bare form ending at      *)
(* `root` nor a rename with the `self::super` prefix fails as one          *)
(* declaration, with the error that names the last path segment seen (or   *)
(* none), and never aborts the walk; the bare form ending at `root` yields *)
(* no entry and no error.                                                  *)
(***************************************************************************)
UseEvents == {i \in ItemEvents : KindOf(events[i]) = "Use"}

BareRoot(it) == Decl[it].tree.t = "Name" /\ Decl[it].tree.ident = "root"

RenameWithPrefix(it) ==
    Decl[it].tree.t = "Rename" /\ IsPrefix(<<"self", "super">>, Decl[it].tree.segs)

LastSegment(it) ==
    LET segs == Decl[it].tree.segs
    IN  IF Len(segs) = 0 THEN None ELSE Some(segs[Len(segs)])

UnexpectedUseReported(i) ==
    /\ events[i].tag = "Err"
    /\ diagnostics[ErrRank(i)].err.kind = "UnexpectedUseStatement"
    /\ diagnostics[ErrRank(i)].err.seg = LastSegment(events[i].item)
    /\ EntriesFrom(events[i].src) = {}

C11_AsStated ==
    \A i \in UseEvents :
        LET it == events[i].item
        IN  /\ ~BareRoot(it) /\ ~RenameWithPrefix(it) => UnexpectedUseReported(i)
            /\ BareRoot(it) => events[i].tag = "Ok" /\ EntriesFrom(events[i].src) = {}

(***************************************************************************)
(* C11, amended: a re-export whose path ends in a glob, a group or a bare  *)
(* name other than `root` fails as one declaration with the error that     *)
(* names the last path segment seen (or none) and carries no identity; it  *)
(* yields no entry and the walk goes on with the next declaration.  The    *)
(* bare form ending at `root` yields no entry and no error.  A rename      *)
(* whose path does not begin with `self::super`, or has no path at all, is *)
(* not a failure of the declaration: it panics, no later declaration is    *)
(* processed and parse_items returns nothing.                              *)
(***************************************************************************)
C11_MalformedReexports ==
    \A i \in UseEvents :
        LET it == events[i].item
        IN  /\ BareRoot(it) => events[i].tag = "Ok" /\ EntriesFrom(events[i].src) = {}
            /\ Decl[it].tree.t # "Rename" /\ ~BareRoot(it) =>
                  /\ UnexpectedUseReported(i)
                  /\ diagnostics[ErrRank(i)].ctx = None
                  /\ i = Len(events) => pc = "walk"
            /\ Decl[it].tree.t = "Rename" /\ ~RenameWithPrefix(it) =>
                  /\ events[i].tag = "Panic"
                  /\ i = Len(events)
                  /\ Panicked /\ pc = "done" /\ result.apis = <<>>

\* A glob, then a group, then `enum E`, in namespace a: two diagnostics
\* naming `super`, and the entry a::E.
C11_Witness ==
    \E i, j, k \in ItemEvents :
        /\ i < j /\ j < k
        /\ events[i].item = "use self::super::*;" /\ UnexpectedUseReported(i)
        /\ events[j].item = "use self::super::{a, b};" /\ UnexpectedUseReported(j)
        /\ events[k].item = "enum E" /\ events[k].ns = events[i].ns
        /\ EntriesFrom(events[k].src) # {}
        /\ result.tag = "Ok"

(***************************************************************************)
(* C12 as stated: a tag of unknown name changes no decoded fact; a         *)
(* recognized tag (layout, original name, special member, argument is a    *)
(* reference) whose payload does not parse gives an error value that names *)
(* the declaration, is never dropped silently and never crashes.           *)
(***************************************************************************)
Recognized ==
    {"visibility_private", "visibility_protected", "pure_virtual", "bindgen_virtual",
     "layout", "original_name", "special_member", "ret_type_reference",
     "arg_type_reference"}

\* An attribute written as #[...bindgen_annotation(name)] or
\* #[...bindgen_annotation(name(payload))].
WellFormed(a) == a.path[Len(a.path)] = "bindgen_annotation" /\ IsSome(a.name) /\ ~a.rest

KnownTag(a) ==
    \/ WellFormed(a) /\ Unwrap(a.name) \in Recognized
    \/ a.path \in {<<"bindgen_layout">>, <<"bindgen_original_name">>}

KnownOnly(attrs) == SelectSeq(attrs, KnownTag)

\* The positions, in the attributes the last call was given, of the
\* annotations of one name, and of the attributes of one path.
TagsNamed(n) ==
    {k \in 1..Len(tagged.before) :
        WellFormed(tagged.before[k]) /\ Unwrap(tagged.before[k].name) = n}

AttrsAt(path) == {k \in 1..Len(tagged.before) : tagged.before[k].path = path}

First(S) == CHOOSE k \in S : \A m \in S : k <= m

Readable(T, a) == IsSome(a.body) /\ IsSome(ParseTokens(T, Unwrap(a.body)))

\* Some tag that the last call reads has a payload that does not parse.
UnparsableForCall ==
    CASE tagged.op = "get_layout" ->
            \E k \in TagsNamed("layout") : ~Readable("Layout", tagged.before[k])
      [] tagged.op = "get_original_name" ->
            \E k \in TagsNamed("original_name") : ~Readable("LitStr", tagged.before[k])
      [] tagged.op = "is_move_constructor" ->
            \E k \in TagsNamed("special_member") : ~Readable("LitStr", tagged.before[k])
      [] tagged.op = "get_reference_parameters_and_return" ->
            \E k \in TagsNamed("arg_type_reference") : ~Readable("Ident", tagged.before[k])
      [] tagged.op = "get_bindgen_original_name_annotation" ->
            \E k \in AttrsAt(<<"bindgen_original_name">>) :
                ~IsSome(ParseArgsLitStr(tagged.before[k]))
      [] tagged.op = "parse_layout" ->
            \E k \in AttrsAt(<<"bindgen_layout">>) : ~IsSome(ParseArgsLayout(tagged.before[k]))
      [] OTHER -> FALSE

C12_AsStated ==
    tagged.op \in Readers =>
        /\ tagged.out = Decoded(tagged.op, KnownOnly(tagged.before))
        /\ ~tagged.out.panic
        /\ UnparsableForCall => tagged.out.err # "" /\ tagged.out.ctx = Some(tagged.id)

(***************************************************************************)
(* C12, amended: a tag of unknown name changes no decoded fact, and no     *)
(* reader gives an error value.  An annotation that does not parse as      *)
(* `name` or `name(payload)` is dropped silently.  For layout, original    *)
(* name and special member the first annotation of the name decides, and a *)
(* payload that is missing or does not parse panics.  An                   *)
(* argument-is-reference annotation whose payload is no identifier is      *)
(* dropped silently, and one without payload panics.  In parse_bindgen.rs  *)
(* an original name that is no string literal is skipped silently and the  *)
(* first layout attribute decides, panicking when it does not parse.       *)
(***************************************************************************)
FirstUnreadable(S, T) == S # {} /\ ~Readable(T, tagged.before[First(S)])

C12_PayloadDecoding ==
    tagged.op \in Readers =>
        LET out == tagged.out
            at == tagged.before
        IN  /\ out = Decoded(tagged.op, KnownOnly(at))
            /\ out.err = "" /\ out.ctx = None
            /\ tagged.op \in {"get_cpp_visibility", "get_virtualness"} => ~out.panic
            /\ tagged.op = "get_layout" =>
                  /\ out.panic <=> FirstUnreadable(TagsNamed("layout"), "Layout")
                  /\ ~out.panic => (IsSome(out.layout) <=> TagsNamed("layout") # {})
            /\ tagged.op = "get_original_name" =>
                  /\ out.panic <=> FirstUnreadable(TagsNamed("original_name"), "LitStr")
                  /\ ~out.panic => (IsSome(out.name) <=> TagsNamed("original_name") # {})
            /\ tagged.op = "is_move_constructor" =>
                  /\ out.panic <=> FirstUnreadable(TagsNamed("special_member"), "LitStr")
                  /\ ~out.panic => (out.move <=> TagsNamed("special_member") # {})
            /\ tagged.op = "get_reference_parameters_and_return" =>
                  /\ out.panic <=> \E k \in TagsNamed("arg_type_reference") : ~IsSome(at[k].body)
                  /\ ~out.panic =>
                        /\ out.ref_params =
                              {at[k].body[1][1].s :
                                  k \in {m \in TagsNamed("arg_type_reference") :
                                            Readable("Ident", at[m])}}
                        /\ out.ref_return <=> TagsNamed("ret_type_reference") # {}
            /\ tagged.op = "get_bindgen_original_name_annotation" =>
                  /\ ~out.panic
                  /\ IsSome(out.name) <=>
                        \E k \in AttrsAt(<<"bindgen_original_name">>) :
                            IsSome(ParseArgsLitStr(at[k]))
            /\ tagged.op = "parse_layout" =>
                  /\ out.panic <=>
                        /\ AttrsAt(<<"bindgen_layout">>) # {}
                        /\ ~IsSome(ParseArgsLayout(at[First(AttrsAt(<<"bindgen_layout">>))]))

\* get_layout on a tag of unknown name followed by a layout whose payload
\* does not parse: a panic.
C12_Witness ==
    /\ tagged.op = "get_layout"
    /\ Len(tagged.before) = 2
    /\ WellFormed(tagged.before[1]) /\ Unwrap(tagged.before[1].name) = "frobnicate"
    /\ FirstUnreadable(TagsNamed("layout"), "Layout")
    /\ tagged.out.panic

(***************************************************************************)
(* C13: remove_bindgen_attrs fails, with an error attributed to the        *)
(* declaration's identifier, if the declaration carries the                *)
(* unused-template-parameter annotation; otherwise it succeeds, and then   *)
(* no bindgen annotation is left among the attributes while every other    *)
(* attribute is kept, unchanged and in order.  A second call on the        *)
(* stripped attributes succeeds and changes nothing.                       *)
(***************************************************************************)
Reserved(a) == a.path[Len(a.path)] = "bindgen_annotation"

CarriesUnusedTemplateParam(attrs) ==
    \E k \in 1..Len(attrs) :
        WellFormed(attrs[k]) /\ Unwrap(attrs[k].name) = "unused_template_param"

\* attrs without its reserved attributes, front to back.
RECURSIVE Unreserved(_)
Unreserved(attrs) ==
    IF attrs = <<>> THEN <<>>
    ELSE (IF Reserved(Head(attrs)) THEN <<>> ELSE <<Head(attrs)>>) \o Unreserved(Tail(attrs))

====
